---- MODULE Spec2Model ----
(***************************************************************************)
(* zotero-mcp: the vector index manager (chroma_client.py, ChromaClient)   *)
(* and the local reference-store reader (local_db.py, LocalZoteroReader).  *)
(*                                                                         *)
(* The manager delegates storage to a persistent vector collection and     *)
(* embedding to one of three embedding functions.  The collection is       *)
(* modelled at the manager's call boundary: the coll_* operators are what  *)
(* self.collection.<method>(...) does for the manager, the client_*        *)
(* operators what self.client.<method>(...) does.                          *)
(***************************************************************************)
EXTENDS Integers, Sequences, FiniteSets, TLC

VARIABLES persisted, mgr, last, wrote, db, conn, rlast, scope, file, handles

vars == <<persisted, mgr, last, wrote, db, conn, rlast, scope, file, handles>>
ivars == <<persisted, mgr, last, wrote>>
rvars == <<db, conn, rlast, scope, file, handles>>

(***************************************************************************)
(* Bounds of the model.                                                    *)
(***************************************************************************)
MaxBatch == 2
MaxQueries == 1
MaxNResults == 3

Ids == {"A", "B"}
Texts == {"t1", "t2"}
Metas == {"m1", "m2"}
Providers == {"default", "openai", "gemini"}
NoSpace == "unset"

SeqsUpTo(S, n) == UNION {[1..m -> S] : m \in 1..n}

\* What a caller hands in for an item: the searchable text and the metadata
\* of one of the two versions of the item.
Versions == {[document |-> "t1", metadata |-> "m1"], [document |-> "t2", metadata |-> "m2"]}
Entries == {[id |-> i, document |-> v.document, metadata |-> v.metadata] :
               i \in Ids, v \in Versions}
\* The batches handed to add and upsert: up to MaxBatch entries of different
\* items, and the batches that name one entry twice.
Batches ==
    {b \in SeqsUpTo(Entries, MaxBatch) :
        \A i, j \in 1..Len(b) : i < j => b[i].id # b[j].id}
    \cup {<<e, e>> : e \in Entries}
IdLists == SeqsUpTo(Ids, MaxBatch)
QueryLists == SeqsUpTo(Texts, MaxQueries)

(***************************************************************************)
(* Embedding functions.  A vector is the pair of the provider's vector     *)
(* space and the position of the text in it; vectors of different          *)
(* providers are not comparable.                                           *)
(***************************************************************************)
TextPos(t) == IF t = "t1" THEN 1 ELSE 4

Vec(p, t) == [space |-> p, pos |-> TextPos(t)]

EmbOk(embeddings) == [raised |-> FALSE, embeddings |-> embeddings]
EmbRaise == [raised |-> TRUE, embeddings |-> << >>]

\* OpenAIEmbeddingFunction.__call__: one request for the whole input; k is the
\* index of the provider request that fails (0: none fails).
OpenAIEmbeddingFunction(input, k) ==
    IF k = 1 THEN EmbRaise
    ELSE EmbOk([i \in 1..Len(input) |-> Vec("openai", input[i])])

\* GeminiEmbeddingFunction.__call__: one request per text, in order; the
\* exception of the k-th request leaves the loop and the function.
RECURSIVE GeminiLoop(_, _, _, _)
GeminiLoop(input, i, embeddings, k) ==
    IF i > Len(input) THEN EmbOk(embeddings)
    ELSE IF i = k THEN EmbRaise
    ELSE GeminiLoop(input, i + 1, Append(embeddings, Vec("gemini", input[i])), k)

GeminiEmbeddingFunction(input, k) == GeminiLoop(input, 1, << >>, k)

\* chromadb's DefaultEmbeddingFunction: a local model, no provider request.
DefaultEmbeddingFunction(input, k) ==
    EmbOk([i \in 1..Len(input) |-> Vec("default", input[i])])

\* The embedding function object ef applied to input.
Embed(ef, input, k) ==
    IF ef = "openai" THEN OpenAIEmbeddingFunction(input, k)
    ELSE IF ef = "gemini" THEN GeminiEmbeddingFunction(input, k)
    ELSE DefaultEmbeddingFunction(input, k)

\* ChromaClient._create_embedding_function: the embedding function for
\* self.embedding_model; the remote ones raise without an API key.
create_embedding_function(embedding_model, has_key) ==
    IF embedding_model = "openai"
    THEN [raised |-> ~has_key, ef |-> "openai"]
    ELSE IF embedding_model = "gemini"
    THEN [raised |-> ~has_key, ef |-> "gemini"]
    ELSE [raised |-> FALSE, ef |-> "default"]

(***************************************************************************)
(* The persistent collection, as the manager's calls see it.               *)
(*   persisted = [open, docs, space, created_with]                         *)
(*   open: a collection of that name exists (Open), or none does (Absent). *)
(*   space: the vector space of the stored embeddings, fixed by the first  *)
(*   write; created_with: the embedding function it was created with.      *)
(*   a handle h = [ef]: the Collection object the manager holds, with the  *)
(*   embedding function it was given.  One manager is attached at a time,  *)
(*   so a handle names the live collection whenever there is one.          *)
(***************************************************************************)
NoCollection == [open |-> FALSE, docs |-> << >>, space |-> NoSpace, created_with |-> NoSpace]

Range(s) == {s[i] : i \in 1..Len(s)}
HasDup(s) == \E i, j \in 1..Len(s) : i < j /\ s[i] = s[j]
StoredIds(docs) == {docs[i].id : i \in 1..Len(docs)}
IdsOf(batch) == [i \in 1..Len(batch) |-> batch[i].id]
DocsOf(batch) == [i \in 1..Len(batch) |-> batch[i].document]

Rec(entry, emb) ==
    [id |-> entry.id, document |-> entry.document, metadata |-> entry.metadata,
     embedding |-> emb]

\* The result of a call: whether it raised and why ("invalid": the arguments
\* were rejected; "embed": the embedding provider failed; "store": the vector
\* store failed; "absent": the collection does not exist; "space": the vectors
\* are not of the collection's space),
\* the collection after it, the embedding functions it invoked and the value
\* it returned.
CallRaise(p, used, why) ==
    [raised |-> TRUE, why |-> why, store |-> p, used |-> used, ret |-> << >>]
CallOk(p, used, ret) ==
    [raised |-> FALSE, why |-> "none", store |-> p, used |-> used, ret |-> ret]
\* A call that caught the failure why and returned ret.
CallCaught(p, why, ret) ==
    [raised |-> FALSE, why |-> why, store |-> p, used |-> {}, ret |-> ret]

\* Why the store cannot serve a call on the collection, if it cannot.
Unreachable(p, bf) == IF bf THEN "store" ELSE IF ~p.open THEN "absent" ELSE "none"

\* self.collection.add(documents, metadatas, ids): every document is embedded;
\* a record whose id is already stored is ignored without an error (the
\* collection of chromadb.PersistentClient logs it and goes on), the others
\* are appended.
coll_add(p, h, batch, k, bf) ==
    IF HasDup(IdsOf(batch)) THEN CallRaise(p, {}, "invalid")
    ELSE LET e == Embed(h.ef, DocsOf(batch), k) IN
         IF e.raised THEN CallRaise(p, {h.ef}, "embed")
         ELSE IF Unreachable(p, bf) # "none" THEN CallRaise(p, {h.ef}, Unreachable(p, bf))
         ELSE IF p.space \notin {NoSpace, h.ef} THEN CallRaise(p, {h.ef}, "space")
         ELSE LET New(r) == r.id \notin StoredIds(p.docs) IN
              CallOk([p EXCEPT
                        !.docs = p.docs \o SelectSeq([i \in 1..Len(batch) |->
                                              Rec(batch[i], e.embeddings[i])], New),
                        !.space = h.ef],
                     {h.ef}, << >>)

\* The stored records after an insert-or-replace of the batch's records.
RECURSIVE UpsertInto(_, _)
UpsertInto(docs, recs) ==
    IF recs = << >> THEN docs
    ELSE LET r == Head(recs) IN
         UpsertInto(IF r.id \in StoredIds(docs)
                    THEN [i \in 1..Len(docs) |->
                            IF docs[i].id = r.id THEN r ELSE docs[i]]
                    ELSE Append(docs, r),
                    Tail(recs))

\* self.collection.upsert(documents, metadatas, ids)
coll_upsert(p, h, batch, k, bf) ==
    IF HasDup(IdsOf(batch)) THEN CallRaise(p, {}, "invalid")
    ELSE LET e == Embed(h.ef, DocsOf(batch), k) IN
         IF e.raised THEN CallRaise(p, {h.ef}, "embed")
         ELSE IF Unreachable(p, bf) # "none" THEN CallRaise(p, {h.ef}, Unreachable(p, bf))
         ELSE IF p.space \notin {NoSpace, h.ef} THEN CallRaise(p, {h.ef}, "space")
         ELSE CallOk([p EXCEPT
                        !.docs = UpsertInto(p.docs, [i \in 1..Len(batch) |->
                                              Rec(batch[i], e.embeddings[i])]),
                        !.space = h.ef],
                     {h.ef}, << >>)

\* self.collection.delete(ids=ids)
coll_delete(p, h, ids, bf) ==
    IF HasDup(ids) THEN CallRaise(p, {}, "invalid")
    ELSE IF Unreachable(p, bf) # "none" THEN CallRaise(p, {}, Unreachable(p, bf))
    ELSE LET Keep(r) == r.id \notin Range(ids) IN
         CallOk([p EXCEPT !.docs = SelectSeq(p.docs, Keep)], {}, << >>)

\* self.collection.get(ids=[doc_id]): the ids found.
coll_get(p, h, doc_id, bf) ==
    IF Unreachable(p, bf) # "none" THEN CallRaise(p, {}, Unreachable(p, bf))
    ELSE LET Is(r) == r.id = doc_id IN
         CallOk(p, {}, IdsOf(SelectSeq(p.docs, Is)))

\* self.collection.count()
coll_count(p, h, bf) ==
    IF Unreachable(p, bf) # "none" THEN CallRaise(p, {}, Unreachable(p, bf))
    ELSE CallOk(p, {}, Len(p.docs))

Distance(q, e) == IF q.pos >= e.pos THEN q.pos - e.pos ELSE e.pos - q.pos

\* The n records of docs nearest to q, nearest first (ties: stored order).
RECURSIVE Nearest(_, _, _)
Nearest(docs, q, n) ==
    IF n = 0 \/ docs = << >> THEN << >>
    ELSE LET best == CHOOSE i \in 1..Len(docs) :
                        \A j \in 1..Len(docs) :
                            \/ Distance(q, docs[i].embedding) < Distance(q, docs[j].embedding)
                            \/ /\ Distance(q, docs[i].embedding) = Distance(q, docs[j].embedding)
                               /\ i <= j
             rest == [j \in 1..(Len(docs) - 1) |->
                        IF j < best THEN docs[j] ELSE docs[j + 1]]
         IN <<[id |-> docs[best].id,
               distance |-> Distance(q, docs[best].embedding)]>>
            \o Nearest(rest, q, n - 1)

Min(a, b) == IF a <= b THEN a ELSE b

\* self.collection.query(query_texts, n_results, where=None, where_document=None)
coll_query(p, h, query_texts, n_results, k, bf) ==
    IF n_results <= 0 THEN CallRaise(p, {}, "invalid")
    ELSE LET e == Embed(h.ef, query_texts, k) IN
         IF e.raised THEN CallRaise(p, {h.ef}, "embed")
         ELSE IF Unreachable(p, bf) # "none" THEN CallRaise(p, {h.ef}, Unreachable(p, bf))
         ELSE IF p.space \notin {NoSpace, h.ef} THEN CallRaise(p, {h.ef}, "space")
         ELSE CallOk(p, {h.ef},
                     [i \in 1..Len(query_texts) |->
                         Nearest(p.docs, e.embeddings[i],
                                 Min(n_results, Len(p.docs)))])

\* self.client.get_or_create_collection(name, embedding_function)
client_get_or_create_collection(p, ef) ==
    IF p.open THEN [store |-> p, handle |-> [ef |-> ef]]
    ELSE [store |-> [open |-> TRUE, docs |-> << >>, space |-> NoSpace,
                     created_with |-> ef],
          handle |-> [ef |-> ef]]

\* self.client.delete_collection(name)
client_delete_collection(p, bf) ==
    IF Unreachable(p, bf) # "none"
    THEN [raised |-> TRUE, why |-> Unreachable(p, bf), store |-> p]
    ELSE [raised |-> FALSE, why |-> "none", store |-> NoCollection]

\* self.client.create_collection(name, embedding_function)
client_create_collection(p, ef, bf) ==
    IF bf THEN [raised |-> TRUE, why |-> "store", store |-> p, handle |-> [ef |-> ef]]
    ELSE IF p.open
    THEN [raised |-> TRUE, why |-> "invalid", store |-> p, handle |-> [ef |-> ef]]
    ELSE [raised |-> FALSE, why |-> "none",
          store |-> [open |-> TRUE, docs |-> << >>, space |-> NoSpace,
                     created_with |-> ef],
          handle |-> [ef |-> ef]]

(***************************************************************************)
(* ChromaClient: the manager.                                              *)
(*   mgr = [collection_name, persist_directory, embedding_model,           *)
(*          embedding_function, collection]                                *)
(* Every operation takes the faults of the call as inputs: k, the index of *)
(* the embedding-provider request that fails (0: none), and bf, whether    *)
(* the vector store fails.                                                 *)
(***************************************************************************)
CollectionName == "zotero_library"
PersistDirectory == "chroma_db"

\* ChromaClient.__init__
init(p, embedding_model, has_key) ==
    LET f == create_embedding_function(embedding_model, has_key) IN
    IF f.raised THEN [raised |-> TRUE, store |-> p, mgr |-> << >>]
    ELSE LET g == client_get_or_create_collection(p, f.ef) IN
         [raised |-> FALSE, store |-> g.store,
          mgr |-> [collection_name |-> CollectionName,
                   persist_directory |-> PersistDirectory,
                   embedding_model |-> embedding_model,
                   embedding_function |-> f.ef,
                   collection |-> g.handle]]

\* ChromaClient.add_documents: the failure is logged and re-raised.
add_documents(p, m, batch, k, bf) ==
    LET r == coll_add(p, m.collection, batch, k, bf) IN
    IF r.raised THEN CallRaise(r.store, r.used, r.why) ELSE CallOk(r.store, r.used, << >>)

\* upsert_documents that inserts without replacing what is stored.
upsert_documents_appends(p, m, batch, k, bf) ==
    LET r == coll_upsert(p, m.collection, batch, k, bf) IN
    IF r.raised THEN r
    ELSE CallOk([r.store EXCEPT
                   !.docs = p.docs \o [i \in 1..Len(batch) |->
                               Rec(batch[i], Vec(m.collection.ef, batch[i].document))]],
                r.used, << >>)

\* ChromaClient.upsert_documents: the failure is logged and re-raised.
upsert_documents(p, m, batch, k, bf) ==
    LET r == coll_upsert(p, m.collection, batch, k, bf) IN
    IF r.raised THEN CallRaise(r.store, r.used, r.why) ELSE CallOk(r.store, r.used, << >>)

\* search that does not pass n_results on: the collection's default of 10
\* applies.
search_unbounded(p, m, query_texts, n_results, k, bf) ==
    coll_query(p, m.collection, query_texts, 10, k, bf)

\* ChromaClient.search: the results are returned as the collection gave them.
search(p, m, query_texts, n_results, k, bf) ==
    LET r == coll_query(p, m.collection, query_texts, n_results, k, bf) IN
    IF r.raised THEN CallRaise(r.store, r.used, r.why) ELSE CallOk(r.store, r.used, r.ret)

\* delete_documents that rejects ids that are not stored.
delete_documents_strict(p, m, ids, bf) ==
    LET r == coll_delete(p, m.collection, ids, bf) IN
    IF ~r.raised /\ ~(Range(ids) \subseteq StoredIds(p.docs))
    THEN CallRaise(p, {}, "missing")
    ELSE r

\* ChromaClient.delete_documents: the failure is logged and re-raised.
delete_documents(p, m, ids, bf) ==
    LET r == coll_delete(p, m.collection, ids, bf) IN
    IF r.raised THEN CallRaise(r.store, r.used, r.why) ELSE CallOk(r.store, r.used, << >>)

Info(m, count, error) ==
    [name |-> m.collection_name, count |-> count,
     embedding_model |-> m.embedding_model,
     persist_directory |-> m.persist_directory, error |-> error]

\* get_collection_info that lets the failure of count() out.
get_collection_info_raises(p, m, bf) ==
    LET c == coll_count(p, m.collection, bf) IN
    IF c.raised THEN CallRaise(p, {}, c.why)
    ELSE CallOk(p, {}, [name |-> m.collection_name, count |-> c.ret,
                        embedding_model |-> m.embedding_model,
                        persist_directory |-> m.persist_directory,
                        error |-> FALSE])

\* ChromaClient.get_collection_info: a failure of count() becomes the
\* returned mapping with count 0 and the error field.
get_collection_info(p, m, bf) ==
    LET c == coll_count(p, m.collection, bf) IN
    IF c.raised THEN CallCaught(p, c.why, Info(m, 0, TRUE))
    ELSE CallOk(p, {}, Info(m, c.ret, FALSE))

\* ChromaClient.document_exists: a failure of get() becomes False.
document_exists(p, m, doc_id, bf) ==
    LET g == coll_get(p, m.collection, doc_id, bf) IN
    IF g.raised THEN CallCaught(p, g.why, FALSE)
    ELSE CallOk(p, {}, Len(g.ret) > 0)

\* reset_collection that recreates the collection without handing it the
\* manager's embedding function: the collection's default applies.
reset_collection_unbound(p, m, at) ==
    LET d == client_delete_collection(p, at = "delete") IN
    IF d.raised
    THEN [raised |-> TRUE, why |-> d.why, store |-> d.store, collection |-> m.collection]
    ELSE LET c == client_create_collection(d.store, "default", at = "create") IN
         IF c.raised
         THEN [raised |-> TRUE, why |-> c.why, store |-> c.store,
               collection |-> m.collection]
         ELSE [raised |-> FALSE, why |-> "none", store |-> c.store,
               collection |-> c.handle]

\* ChromaClient.reset_collection; at: the client call that fails ("none",
\* "delete", "create").  self.collection is assigned only when
\* create_collection returns.
reset_collection(p, m, at) ==
    LET d == client_delete_collection(p, at = "delete") IN
    IF d.raised
    THEN [raised |-> TRUE, why |-> d.why, store |-> d.store, collection |-> m.collection]
    ELSE LET c == client_create_collection(d.store, m.embedding_function,
                                           at = "create") IN
         IF c.raised
         THEN [raised |-> TRUE, why |-> c.why, store |-> c.store,
               collection |-> m.collection]
         ELSE [raised |-> FALSE, why |-> "none", store |-> c.store,
               collection |-> c.handle]

(***************************************************************************)
(* The state machine of the index manager.  last records the call that     *)
(* was made last: its operation, its faults, its outcome, the value it     *)
(* returned, the embedding functions it invoked, and of its arguments:     *)
(*   add, upsert: n, the size of the batch, and written, the batch when    *)
(*   the call returned (nothing when it raised), and again, whether the    *)
(*   call repeats the call before it, which returned;                      *)
(*   query: n_results; delete: ids, and hit, how many of them were stored; *)
(*   exists: doc_id; reset: had, how many documents the collection held;   *)
(*   init: embedding_model.                                                *)
(* why is the failure that occurred in the call, raised or caught.         *)
(* wrote[id] is the last write that returned and named id: "added" by add  *)
(* or upsert, "deleted" by delete, "none" since the collection was         *)
(* created.                                                                *)
(***************************************************************************)
\* The faults of one call that embeds n texts: none, the k-th provider
\* request fails, or the vector store fails.
Faults(n) == {[k |-> i, bf |-> FALSE] : i \in 0..n} \cup {[k |-> 0, bf |-> TRUE]}

Outcome(raised) == IF raised THEN "raised" ELSE "ok"

\* k: the provider request that failed, when one did.
Call(op, arg, fault, r) ==
    [op |-> op, arg |-> arg, outcome |-> Outcome(r.raised), why |-> r.why,
     k |-> IF r.why = "embed" THEN fault.k ELSE 0,
     ret |-> r.ret, used |-> r.used]

Written(op, batch, r) ==
    [n |-> Len(batch), written |-> IF r.raised THEN << >> ELSE batch,
     again |-> /\ ~r.raised
               /\ last.op = op
               /\ last.outcome = "ok"
               /\ last.arg.written = batch]

Wrote(w, ids, r, what) ==
    IF r.raised THEN w ELSE [i \in Ids |-> IF i \in Range(ids) THEN what ELSE w[i]]

NothingWritten == [i \in Ids |-> "none"]

InitIndex ==
    \E embedding_model \in Providers :
        LET r == init(NoCollection, embedding_model, TRUE) IN
        /\ persisted = r.store
        /\ mgr = r.mgr
        /\ wrote = NothingWritten
        /\ last = [op |-> "init", arg |-> embedding_model, outcome |-> "ok",
                   why |-> "none", k |-> 0, ret |-> << >>, used |-> {}]

Construct ==
    \E embedding_model \in Providers, has_key \in BOOLEAN :
        LET r == init(persisted, embedding_model, has_key) IN
        /\ persisted' = r.store
        /\ mgr' = IF r.raised THEN mgr ELSE r.mgr
        /\ last' = [op |-> "init", arg |-> embedding_model,
                    outcome |-> Outcome(r.raised),
                    why |-> IF r.raised THEN "config" ELSE "none",
                    k |-> 0, ret |-> << >>, used |-> {}]
        /\ wrote' = IF persisted'.open /\ ~persisted.open THEN NothingWritten ELSE wrote
        /\ UNCHANGED rvars

Add ==
    \E batch \in Batches :
        \E fault \in Faults(Len(batch)) :
            LET r == add_documents(persisted, mgr, batch, fault.k, fault.bf) IN
            /\ persisted' = r.store
            /\ last' = Call("add", Written("add", batch, r), fault, r)
            /\ wrote' = Wrote(wrote, IdsOf(batch), r, "added")
            /\ UNCHANGED <<mgr, rvars>>

Upsert ==
    \E batch \in Batches :
        \E fault \in Faults(Len(batch)) :
            LET r == upsert_documents(persisted, mgr, batch, fault.k, fault.bf) IN
            /\ persisted' = r.store
            /\ last' = Call("upsert", Written("upsert", batch, r), fault, r)
            /\ wrote' = Wrote(wrote, IdsOf(batch), r, "added")
            /\ UNCHANGED <<mgr, rvars>>

Search ==
    \E query_texts \in QueryLists, n_results \in 0..MaxNResults :
        \E fault \in Faults(Len(query_texts)) :
            LET r == search(persisted, mgr, query_texts, n_results, fault.k, fault.bf) IN
            /\ persisted' = r.store
            /\ last' = Call("query", n_results, fault, r)
            /\ UNCHANGED <<mgr, wrote, rvars>>

Delete ==
    \E ids \in IdLists, fault \in Faults(0) :
        LET r == delete_documents(persisted, mgr, ids, fault.bf) IN
        /\ persisted' = r.store
        /\ last' = Call("delete",
                        [ids |-> ids,
                         hit |-> Cardinality(Range(ids) \cap StoredIds(persisted.docs))],
                        fault, r)
        /\ wrote' = Wrote(wrote, ids, r, "deleted")
        /\ UNCHANGED <<mgr, rvars>>

GetInfo ==
    \E fault \in Faults(0) :
        LET r == get_collection_info(persisted, mgr, fault.bf) IN
        /\ persisted' = r.store
        /\ last' = Call("info", << >>, fault, r)
        /\ UNCHANGED <<mgr, wrote, rvars>>

Exists ==
    \E doc_id \in Ids, fault \in Faults(0) :
        LET r == document_exists(persisted, mgr, doc_id, fault.bf) IN
        /\ persisted' = r.store
        /\ last' = Call("exists", doc_id, fault, r)
        /\ UNCHANGED <<mgr, wrote, rvars>>

Reset ==
    \E at \in {"none", "delete", "create"} :
        LET r == reset_collection(persisted, mgr, at) IN
        /\ persisted' = r.store
        /\ mgr' = [mgr EXCEPT !.collection = r.collection]
        /\ last' = [op |-> "reset", arg |-> [had |-> Len(persisted.docs)],
                    outcome |-> Outcome(r.raised),
                    why |-> r.why, k |-> 0, ret |-> << >>, used |-> {}]
        /\ wrote' = IF r.store = persisted THEN wrote ELSE NothingWritten
        /\ UNCHANGED rvars

NextIndex ==
    \/ Construct
    \/ Add
    \/ Upsert
    \/ Search
    \/ Delete
    \/ GetInfo
    \/ Exists
    \/ Reset


(***************************************************************************)
(* LocalZoteroReader: the reader of the reference store.                   *)
(*   db: the store, a sequence of items; item i has itemID i and           *)
(*     itemTypeID (14, the attachment type, or 2, another type),           *)
(*     dateModified, key (KeyOf(i): keys are unique in the store),         *)
(*     links: the number of its itemCreators rows (to creators 1..links),  *)
(*     note: "none", or its itemNotes row: "own" (no parent) or "child"    *)
(*     (parentItemID is ParentOf(i)).                                      *)
(*   conn: self._connection, "none" or "open" (opened with mode=ro).       *)
(*   rlast: the call made last, with its argument, whether it raised and   *)
(*     the value it returned.                                              *)
(*   scope: the number of "with reader:" blocks the caller is inside.      *)
(*   file: the store file as the reader finds it: "ok", "locked" (another  *)
(*     process holds it locked: a statement raises) or "missing" (opening  *)
(*     it raises).                                                         *)
(*   handles: the connections open on the store file, each with the mode   *)
(*     it was opened in; the reader's connection is the last one.          *)
(***************************************************************************)
MaxItems == 2
MaxLimit == 2
AttachmentTypeID == 14
Null == "NULL"
\* Python's None is the empty tuple and a value v that may be None is <<v>>.
None == << >>
Some(v) == <<v>>

CreatorsTable ==
    <<[firstName |-> "Ada", lastName |-> "Lovelace"],
      [firstName |-> Null, lastName |-> "Aristotle"]>>

\* The parent of the child note i: the first other item.
ParentOf(i) == IF i = 1 THEN 2 ELSE 1

ItemRows ==
    [itemTypeID : {2, AttachmentTypeID}, dateModified : {1, 2},
     links : 0..Len(CreatorsTable), note : {"none", "own", "child"}]

Stores ==
    {d \in UNION {[1..n -> ItemRows] : n \in 0..MaxItems} :
        \A i \in 1..Len(d) : d[i].note = "child" => Len(d) >= 2}

KeyOf(i) == <<"KEY", i>>

\* The itemNotes rows joined to item i: n.parentItemID = i OR n.itemID = i.
NotesJoined(d, i) ==
    LET Joins(n) == /\ d[n].note # "none"
                    /\ \/ n = i
                       \/ d[n].note = "child" /\ ParentOf(n) = i
        Pick(n) == Joins(n)
    IN SelectSeq([n \in 1..Len(d) |-> n], Pick)

\* The rows of the FROM ... LEFT JOIN ... for item i: one per pair of a joined
\* note (or NULL) and a joined creator (or NULL).
JoinRows(d, i) ==
    LET ns == IF NotesJoined(d, i) = << >> THEN <<0>> ELSE NotesJoined(d, i)
        cs == IF d[i].links = 0 THEN <<0>> ELSE [c \in 1..d[i].links |-> c]
    IN [r \in 1..(Len(ns) * Len(cs)) |->
           [itemID |-> i,
            n |-> ns[((r - 1) \div Len(cs)) + 1],
            c |-> cs[((r - 1) % Len(cs)) + 1]]]

RECURSIVE Concat(_)
Concat(ss) == IF ss = << >> THEN << >> ELSE Head(ss) \o Concat(Tail(ss))

\* FROM items i LEFT JOIN ... WHERE i.itemTypeID != 14
SelectedRows(d) ==
    LET Where(i) == d[i].itemTypeID # AttachmentTypeID IN
    Concat([k \in 1..Len(SelectSeq([i \in 1..Len(d) |-> i], Where)) |->
               JoinRows(d, SelectSeq([i \in 1..Len(d) |-> i], Where)[k])])

CreatorName(c) ==
    IF c.firstName # Null /\ c.lastName # Null THEN <<c.lastName, ", ", c.firstName>>
    ELSE IF c.lastName # Null THEN <<c.lastName>>
    ELSE Null

\* The text of the itemNotes row of item n.
NoteTable == <<"alpha", "beta", "gamma", "delta">>
NoteText(n) == <<NoteTable[((n - 1) % Len(NoteTable)) + 1]>>

\* A string is the sequence of its pieces; the values, in order, with the
\* separator between each two of them.
RECURSIVE Join(_, _)
Join(values, sep) ==
    IF values = << >> THEN << >>
    ELSE IF Len(values) = 1 THEN values[1]
    ELSE values[1] \o <<sep>> \o Join(Tail(values), sep)

\* GROUP_CONCAT(X, sep) over the rows of a group: the non-NULL values of X,
\* one for every row of the group, in row order, with sep between them; NULL
\* when there is none.
GroupConcat(values, sep) ==
    LET NotNull(v) == v # Null IN
    IF SelectSeq(values, NotNull) = << >> THEN Null
    ELSE Join(SelectSeq(values, NotNull), sep)

\* The ZoteroItem built from the group of rows of item i.
ZoteroItem(d, i, rows) ==
    [item_id |-> i, key |-> KeyOf(i), item_type_id |-> d[i].itemTypeID,
     title |-> Null, abstract |-> Null,
     creators |-> GroupConcat([r \in 1..Len(rows) |->
                     IF rows[r].c = 0 THEN Null
                     ELSE CreatorName(CreatorsTable[rows[r].c])], "; "),
     fulltext |-> Null,
     notes |-> GroupConcat([r \in 1..Len(rows) |->
                     IF rows[r].n = 0 THEN Null ELSE NoteText(rows[r].n)], " "),
     extra |-> Null,
     date_modified |-> d[i].dateModified]

\* Python's truth of an optional string: neither None nor "".
Truthy(v) == IF v = Null THEN FALSE ELSE v # << >>

\* The texts a document's full text is taken from, with their lengths in
\* characters.
FulltextLimit == 5000
len(text) ==
    IF text = << >> THEN 0
    ELSE IF text = <<"volume">> THEN FulltextLimit + 1
    ELSE IF text = <<"chapter">> THEN FulltextLimit
    ELSE 4

\* self.fulltext[:5000] + "..." if len(self.fulltext) > 5000 else self.fulltext
truncated_fulltext(fulltext) ==
    IF len(fulltext) > FulltextLimit
    THEN <<"volume[:5000]">> \o <<"...">>
    ELSE fulltext

\* get_searchable_text where a field counts when it is not None.
get_searchable_text_not_none(item) ==
    LET Part(label, v) == IF v # Null THEN <<<<label>> \o v>> ELSE << >>
        parts == Part("Title: ", item.title)
                 \o Part("Authors: ", item.creators)
                 \o Part("Abstract: ", item.abstract)
                 \o Part("Extra: ", item.extra)
                 \o Part("Notes: ", item.notes)
                 \o (IF item.fulltext # Null
                     THEN <<<<"Content: ">> \o truncated_fulltext(item.fulltext)>>
                     ELSE << >>)
    IN Join(parts, "\n\n")

\* ZoteroItem.get_searchable_text: the parts of the fields that are true, in
\* the order of the code, joined by an empty line.
get_searchable_text(item) ==
    LET Part(label, v) == IF Truthy(v) THEN <<<<label>> \o v>> ELSE << >>
        parts == Part("Title: ", item.title)
                 \o Part("Authors: ", item.creators)
                 \o Part("Abstract: ", item.abstract)
                 \o Part("Extra: ", item.extra)
                 \o Part("Notes: ", item.notes)
                 \o (IF Truthy(item.fulltext)
                     THEN <<<<"Content: ">> \o truncated_fulltext(item.fulltext)>>
                     ELSE << >>)
    IN Join(parts, "\n\n")

\* GROUP BY i.itemID, ...: one ZoteroItem per group of the selected rows.
Grouped(d, rows) ==
    {ZoteroItem(d, i, LET In(r) == r.itemID = i IN SelectSeq(rows, In)) :
        i \in {rows[r].itemID : r \in 1..Len(rows)}}

\* ORDER BY i.dateModified DESC: the orders the store may return the groups
\* in; rows of equal dateModified come in either order.
Ordered(groups) ==
    {o \in [1..Cardinality(groups) -> groups] :
        /\ \A a, b \in 1..Cardinality(groups) : a # b => o[a] # o[b]
        /\ \A a, b \in 1..Cardinality(groups) :
              a < b => o[a].date_modified >= o[b].date_modified}

\* LIMIT is appended only "if limit:", so not for None and not for 0.
Limited(o, limit) ==
    IF limit = None \/ limit[1] = 0 THEN o ELSE SubSeq(o, 1, Min(limit[1], Len(o)))

\* get_items_with_text with the WHERE clause left out.
get_items_with_text_any_type(d, limit) ==
    {Limited(o, limit) :
        o \in Ordered(Grouped(d, Concat([i \in 1..Len(d) |-> JoinRows(d, i)])))}

\* LocalZoteroReader.get_items_with_text: the lists it may return.
get_items_with_text(d, limit) ==
    {Limited(o, limit) : o \in Ordered(Grouped(d, SelectedRows(d)))}

\* LocalZoteroReader.get_item_count: SELECT COUNT(*) ... WHERE itemTypeID != 14
get_item_count(d) ==
    Cardinality({i \in 1..Len(d) : d[i].itemTypeID # AttachmentTypeID})

\* LocalZoteroReader.get_item_by_key: the first item of the unlimited list
\* with that key, or None.
get_item_by_key(d, key) ==
    {IF \E j \in 1..Len(items) : items[j].key = key
     THEN Some(items[CHOOSE j \in 1..Len(items) :
                        /\ items[j].key = key
                        /\ \A h \in 1..(j - 1) : items[h].key # key])
     ELSE None : items \in get_items_with_text(d, None)}

\* LocalZoteroReader._get_connection: the connection the reader holds, or a
\* new one, opened with mode=ro; opening raises when the file is not there.
get_connection(c, h, f) ==
    IF c # "none" THEN [raised |-> FALSE, connection |-> c, handles |-> h]
    ELSE IF f = "missing" THEN [raised |-> TRUE, connection |-> "none", handles |-> h]
    ELSE [raised |-> FALSE, connection |-> "open", handles |-> Append(h, "ro")]

\* conn = self._get_connection(); conn.execute(...): the statement raises
\* when the file is locked, and the connection stays.
execute(c, h, f) ==
    LET g == get_connection(c, h, f) IN
    [g EXCEPT !.raised = g.raised \/ f = "locked"]

\* LocalZoteroReader.close: closes the connection held, if any.
close(c, h) ==
    IF c # "none" THEN [connection |-> "none", handles |-> SubSeq(h, 1, Len(h) - 1)]
    ELSE [connection |-> c, handles |-> h]

\* __exit__ that closes only when the block completed.
exit_on_success(c, h, exc) ==
    IF exc THEN [connection |-> c, handles |-> h] ELSE close(c, h)

\* LocalZoteroReader.__exit__: exc tells whether an exception leaves the block.
exit(c, h, exc) == close(c, h)

\* str.lower(), piece by piece.
lower(text) ==
    [i \in 1..Len(text) |->
        IF text[i] = "Lovelace" THEN "lovelace"
        ELSE IF text[i] = "Ada" THEN "ada"
        ELSE IF text[i] = "Aristotle" THEN "aristotle"
        ELSE IF text[i] = "Authors: " THEN "authors: "
        ELSE IF text[i] = "Notes: " THEN "notes: "
        ELSE text[i]]

\* query in text: the pieces of query are consecutive pieces of text.
Contains(text, query) ==
    \E i \in 1..(Len(text) + 1) :
        /\ i + Len(query) - 1 <= Len(text)
        /\ SubSeq(text, i, i + Len(query) - 1) = query

\* The loop of search_items_by_text over items, from item j on.
RECURSIVE SearchLoop(_, _, _, _, _)
SearchLoop(items, j, matching_items, query_lower, limit) ==
    IF j > Len(items) THEN matching_items
    ELSE IF Contains(lower(get_searchable_text(items[j])), query_lower)
    THEN IF Len(Append(matching_items, items[j])) >= limit
         THEN Append(matching_items, items[j])
         ELSE SearchLoop(items, j + 1, Append(matching_items, items[j]),
                         query_lower, limit)
    ELSE SearchLoop(items, j + 1, matching_items, query_lower, limit)

\* LocalZoteroReader.search_items_by_text: the lists it may return.
search_items_by_text(d, query, limit) ==
    {SearchLoop(items, 1, << >>, lower(query), limit) :
        items \in get_items_with_text(d, None)}

Limits == {None} \cup {Some(n) : n \in 0..MaxLimit}
Queries == {<< >>, <<"Lovelace">>, <<"aristotle">>, <<"zzz">>}
MaxDepth == 1

Returned(op, arg, ret) == [op |-> op, arg |-> arg, raised |-> FALSE, ret |-> ret]
Raised(op, arg) == [op |-> op, arg |-> arg, raised |-> TRUE, ret |-> None]

InitReader ==
    /\ db \in Stores
    /\ conn = "none"
    /\ rlast = Returned("init", None, None)
    /\ scope = 0
    /\ file = "ok"
    /\ handles = << >>

GetItemsWithText ==
    \E limit \in Limits :
        LET e == execute(conn, handles, file) IN
        /\ conn' = e.connection
        /\ handles' = e.handles
        /\ IF e.raised
           THEN rlast' = Raised("get_items_with_text", limit)
           ELSE \E items \in get_items_with_text(db, limit) :
                    rlast' = Returned("get_items_with_text", limit, items)
        /\ UNCHANGED <<db, scope, file, ivars>>

GetItemCount ==
    LET e == execute(conn, handles, file) IN
    /\ conn' = e.connection
    /\ handles' = e.handles
    /\ rlast' = IF e.raised THEN Raised("get_item_count", None)
                ELSE Returned("get_item_count", None, get_item_count(db))
    /\ UNCHANGED <<db, scope, file, ivars>>

GetItemByKey ==
    \E i \in 1..(MaxItems + 1) :
        LET e == execute(conn, handles, file) IN
        /\ conn' = e.connection
        /\ handles' = e.handles
        /\ IF e.raised
           THEN rlast' = Raised("get_item_by_key", KeyOf(i))
           ELSE \E item \in get_item_by_key(db, KeyOf(i)) :
                    rlast' = Returned("get_item_by_key", KeyOf(i), item)
        /\ UNCHANGED <<db, scope, file, ivars>>

SearchItemsByText ==
    \E query \in Queries, limit \in 0..MaxLimit :
        LET e == execute(conn, handles, file) IN
        /\ conn' = e.connection
        /\ handles' = e.handles
        /\ IF e.raised
           THEN rlast' = Raised("search_items_by_text", [query |-> query, limit |-> limit])
           ELSE \E items \in search_items_by_text(db, query, limit) :
                    rlast' = Returned("search_items_by_text",
                                      [query |-> query, limit |-> limit], items)
        /\ UNCHANGED <<db, scope, file, ivars>>

\* LocalZoteroReader.close
Close ==
    /\ conn' = close(conn, handles).connection
    /\ handles' = close(conn, handles).handles
    /\ rlast' = Returned("close", None, None)
    /\ UNCHANGED <<db, scope, file, ivars>>

\* with reader: ... is entered (__enter__ returns self).
Enter ==
    /\ scope < MaxDepth
    /\ scope' = scope + 1
    /\ rlast' = Returned("enter", None, None)
    /\ UNCHANGED <<db, conn, file, handles, ivars>>

\* The block is left, by completion or by the exception of the call made last
\* in it: __exit__ runs and lets the exception on.
Exit ==
    /\ scope > 0
    /\ scope' = scope - 1
    /\ conn' = exit(conn, handles, rlast.raised).connection
    /\ handles' = exit(conn, handles, rlast.raised).handles
    /\ rlast' = [op |-> "exit", arg |-> [held |-> conn # "none"],
                 raised |-> rlast.raised, ret |-> None]
    /\ UNCHANGED <<db, file, ivars>>

\* Another process locks or releases the store file, or the file is moved
\* away or put back.
StoreChanges ==
    /\ file' \in {"ok", "locked", "missing"} \ {file}
    /\ UNCHANGED <<db, conn, rlast, scope, handles, ivars>>

NextReader ==
    \/ GetItemsWithText
    \/ GetItemCount
    \/ GetItemByKey
    \/ Close

NextSession ==
    \/ Enter
    \/ Exit
    \/ GetItemsWithText
    \/ GetItemCount
    \/ GetItemByKey
    \/ SearchItemsByText
    \/ Close
    \/ StoreChanges

\* The index manager, with the reader idle on an empty store.
Init ==
    /\ InitIndex
    /\ db = << >>
    /\ conn = "none"
    /\ rlast = Returned("init", None, None)
    /\ scope = 0
    /\ file = "ok"
    /\ handles = << >>

Spec == Init /\ [][NextIndex]_vars

IndexIdle ==
    /\ persisted = init(NoCollection, "default", TRUE).store
    /\ mgr = init(NoCollection, "default", TRUE).mgr
    /\ wrote = NothingWritten
    /\ last = [op |-> "init", arg |-> "default", outcome |-> "ok",
               why |-> "none", k |-> 0, ret |-> << >>, used |-> {}]

\* The reader, over every store of the bounds, with the index manager idle.
InitR ==
    /\ InitReader
    /\ IndexIdle

SpecReader == InitR /\ [][NextReader]_vars

\* The stores of a session: items without notes, each with one creator or two.
SessionStores ==
    {d \in Stores : \A i \in 1..Len(d) : d[i].note = "none" /\ d[i].links >= 1}

\* A caller's session with the reader: scoped or not, searching, on a store
\* file that other processes lock and move.
InitSession ==
    /\ InitReader
    /\ db \in SessionStores
    /\ IndexIdle

SpecSession == InitSession /\ [][NextSession]_vars

\* The item records handed to get_searchable_text: every field None, the
\* empty string or a text.
OptionalTexts == {Null, << >>, <<"x">>}
Fulltexts == {Null, << >>, <<"page">>, <<"chapter">>, <<"volume">>}
ItemRecords ==
    [item_id : {1}, key : {KeyOf(1)}, item_type_id : {2},
     title : OptionalTexts, abstract : OptionalTexts, creators : OptionalTexts,
     fulltext : Fulltexts, notes : OptionalTexts, extra : OptionalTexts,
     date_modified : {1}]

GetSearchableText ==
    \E item \in ItemRecords :
        /\ rlast' = Returned("get_searchable_text", item, get_searchable_text(item))
        /\ UNCHANGED <<db, conn, scope, file, handles, ivars>>

NextText ==
    \/ GetSearchableText

\* The text of item records, with the store empty and the index manager idle.
SpecText == Init /\ [][NextText]_vars

(***************************************************************************)
(* Properties of the index manager.                                        *)
(***************************************************************************)
StoredOf(p, id) == {<<r.document, r.metadata>> : r \in {x \in Range(p.docs) : x.id = id}}

\* C1: every query and write through a manager embeds text with the embedding
\* provider the collection was created with, whatever provider the manager's
\* embedding_model argument requested.
C1_ProviderSticky ==
    (last.op \in {"query", "add", "upsert"} /\ persisted.open)
        => last.used \subseteq {persisted.created_with}

\* C2: upsert is idempotent: in every state reached by an upsert that returned,
\* applying that upsert again leaves the document count and the stored
\* document and metadata of each of its ids as they are.
C2_UpsertIdempotent ==
    (last.op = "upsert" /\ last.outcome = "ok") =>
        LET b == last.arg.written
            twice == upsert_documents(persisted, mgr, b, 0, FALSE).store
        IN /\ Len(twice.docs) = Len(persisted.docs)
           /\ \A i \in 1..Len(b) :
                 /\ StoredOf(twice, b[i].id) = StoredOf(persisted, b[i].id)
                 /\ StoredOf(persisted, b[i].id) = {<<b[i].document, b[i].metadata>>}

\* C2 witness: the same upsert of two documents was applied twice in a row.
C2_Witness ==
    /\ last.op = "upsert"
    /\ last.outcome = "ok"
    /\ last.arg.again
    /\ last.arg.n = 2

\* C3: no add or upsert partially commits: a call that raises leaves the
\* collection exactly as it was, and a call that returns has stored every
\* document of its batch, with its metadata and its embedding.
C3_NoPartialCommit ==
    [][last'.op \in {"add", "upsert"} =>
         /\ last'.outcome = "raised" => persisted' = persisted
         /\ last'.outcome = "ok" =>
               \A i \in 1..Len(last'.arg.written) :
                   Rec(last'.arg.written[i],
                       Vec(mgr.collection.ef, last'.arg.written[i].document))
                       \in Range(persisted'.docs)]_vars

\* What does hold of C3: a call in which the embedding provider fails, on
\* whichever text, raises and leaves the collection exactly as it was, and an
\* upsert that returns has stored its whole batch.
C3_EmbedFailureAtomic ==
    [][last'.op \in {"add", "upsert"} =>
         /\ last'.outcome = "raised" => persisted' = persisted
         /\ last'.why = "embed" => last'.outcome = "raised"
         /\ (last'.op = "upsert" /\ last'.outcome = "ok") =>
               \A i \in 1..Len(last'.arg.written) :
                   Rec(last'.arg.written[i],
                       Vec(mgr.collection.ef, last'.arg.written[i].document))
                       \in Range(persisted'.docs)]_vars

\* The sequential provider failed on the second text of a batch of two, after
\* the first text was embedded, against a collection that holds a document.
C3_EmbedFailureSeen ==
    /\ last.op \in {"add", "upsert"}
    /\ last.why = "embed"
    /\ last.k = 2
    /\ last.arg.n = 2
    /\ last.used = {"gemini"}
    /\ Len(persisted.docs) = 1

\* C4: a vector-store or embedding failure during any operation other than
\* info() is raised to the caller.
C4_BackendFailureRaised ==
    (last.why \in {"embed", "store", "absent"} /\ last.op # "info")
        => last.outcome = "raised"

\* What does hold of C4: the failure is raised by every operation but info()
\* and exists().
C4_OthersRaise ==
    (last.why \in {"embed", "store", "absent"} /\ last.op \notin {"info", "exists"})
        => last.outcome = "raised"

\* C5: exists(A) returns true when the last write that returned and named A was
\* an add or upsert, and false when it was a delete.
C5_ExistsTracksWrites ==
    last.op = "exists" =>
        /\ wrote[last.arg] = "added" => last.ret = TRUE
        /\ wrote[last.arg] = "deleted" => last.ret = FALSE

\* What does hold of C5: it holds of every exists() in which the store did
\* not fail.
C5_WithoutFailure ==
    (last.op = "exists" /\ last.why = "none") =>
        /\ wrote[last.arg] = "added" => last.ret = TRUE
        /\ wrote[last.arg] = "deleted" => last.ret = FALSE

\* C6: a reset that returns leaves an Open collection of the same name with no
\* documents, created with and handled through the embedding function the
\* manager held before the call; exists is false for every id, and add, upsert
\* and query work on it.
C6_ResetRecreates ==
    [][(last'.op = "reset" /\ last'.outcome = "ok") =>
         /\ persisted'.open
         /\ Len(persisted'.docs) = 0
         /\ mgr'.collection_name = mgr.collection_name
         /\ mgr'.embedding_function = mgr.embedding_function
         /\ mgr'.collection.ef = mgr.collection.ef
         /\ persisted'.created_with = mgr.collection.ef
         /\ \A id \in Ids : ~document_exists(persisted', mgr', id, FALSE).ret
         /\ \A e \in Entries :
               /\ ~add_documents(persisted', mgr', <<e>>, 0, FALSE).raised
               /\ ~upsert_documents(persisted', mgr', <<e>>, 0, FALSE).raised
               /\ ~search(persisted', mgr', <<e.document>>, 1, 0, FALSE).raised]_vars

\* C6 witness: a reset returned that destroyed stored documents, on a manager
\* bound to a remote provider.
C6_Witness ==
    /\ last.op = "reset"
    /\ last.outcome = "ok"
    /\ last.arg.had = 2
    /\ mgr.collection.ef = "gemini"

\* C7: a delete of ids of which none is stored leaves the collection as it is
\* and raises only when the vector store fails, the collection is absent or
\* the id list is rejected.
C7_DeleteMissingNoOp ==
    [][(last'.op = "delete"
        /\ Range(last'.arg.ids) \cap StoredIds(persisted.docs) = {}) =>
         /\ persisted' = persisted
         /\ last'.outcome = "raised" => last'.why \in {"store", "absent", "invalid"}]_vars

\* C7 witness: a delete of an id that was not stored returned, on a collection
\* that holds another document.
C7_Witness ==
    /\ last.op = "delete"
    /\ last.outcome = "ok"
    /\ last.arg.hit = 0
    /\ Len(persisted.docs) = 1

\* C8: info() never raises; it returns the manager's name, provider kind and
\* location, with the true count and no error when the store answers, and
\* with count zero and the error field when it fails.
C8_InfoNeverRaises ==
    last.op = "info" =>
        /\ last.outcome = "ok"
        /\ last.ret.name = mgr.collection_name
        /\ last.ret.embedding_model = mgr.embedding_model
        /\ last.ret.embedding_model = mgr.embedding_function
        /\ last.ret.persist_directory = mgr.persist_directory
        /\ last.why = "none" => (last.ret.count = Len(persisted.docs) /\ ~last.ret.error)
        /\ last.why # "none" => (last.ret.count = 0 /\ last.ret.error)

\* C8 witness: info() was called while the store failed and the collection
\* held documents.
C8_Witness ==
    /\ last.op = "info"
    /\ last.why = "store"
    /\ Len(persisted.docs) = 2

\* C9: a query that returns gives, for each query text, at most
\* min(n_results, count) results in ascending distance; a query raises only
\* for a failure or rejected arguments, never because n_results exceeds the
\* count.
C9_NResultsSoftCap ==
    last.op = "query" =>
        /\ last.outcome = "ok" =>
              \A i \in 1..Len(last.ret) :
                  /\ Len(last.ret[i]) <= Min(last.arg, Len(persisted.docs))
                  /\ \A a, b \in 1..Len(last.ret[i]) :
                        a < b => last.ret[i][a].distance <= last.ret[i][b].distance
                  /\ \A a \in 1..Len(last.ret[i]) :
                        last.ret[i][a].id \in StoredIds(persisted.docs)
        /\ (last.outcome = "raised" /\ last.arg >= 1) =>
              last.why \in {"embed", "store", "absent", "space"}
        /\ (last.arg >= 1 /\ last.why = "none") => last.outcome = "ok"

\* C9 witness: a query asked for more results than the collection holds and
\* returned all of them, the nearer first.
C9_Witness ==
    /\ last.op = "query"
    /\ last.outcome = "ok"
    /\ Len(persisted.docs) = 2
    /\ last.arg > 2
    /\ Len(last.ret[1]) = 2
    /\ last.ret[1][1].distance < last.ret[1][2].distance

\* C14: a reset that raises, on an Open collection, leaves the collection as
\* it was, with the documents it held, and the manager attached to it: no
\* later add, upsert, query or exists fails because the collection is Absent.
C14_ResetAllOrNothing ==
    [][(last'.op = "reset" /\ last'.outcome = "raised" /\ persisted.open) =>
         /\ persisted' = persisted
         /\ mgr' = mgr
         /\ \A e \in Entries :
               /\ add_documents(persisted', mgr', <<e>>, 0, FALSE).why # "absent"
               /\ upsert_documents(persisted', mgr', <<e>>, 0, FALSE).why # "absent"
               /\ search(persisted', mgr', <<e.document>>, 1, 0, FALSE).why # "absent"
               /\ document_exists(persisted', mgr', e.id, FALSE).why # "absent"]_vars

\* What does hold of C14: a reset that raises leaves the collection either as
\* it was or Absent, never Open with other documents, and leaves the manager's
\* fields as they were.
C14_KeptOrAbsent ==
    [][(last'.op = "reset" /\ last'.outcome = "raised") =>
         /\ persisted' = persisted \/ persisted' = NoCollection
         /\ mgr' = mgr]_vars

\* A reset raised and left the collection Absent, and a later add on the same
\* manager raised because of it.
C14_AbsentSeen ==
    /\ last.op = "add"
    /\ last.why = "absent"
    /\ ~persisted.open

(***************************************************************************)
(* Properties of the reader.                                               *)
(***************************************************************************)
\* C10: get_items_with_text() without a limit returns exactly one record for
\* each item that is not an attachment and none for an attachment: as many
\* records as get_item_count() counts, and no key twice.
C10_OnePerNonAttachment ==
    (rlast.op = "get_items_with_text" /\ ~rlast.raised /\ rlast.arg = None) =>
        LET items == rlast.ret IN
        /\ \A i \in 1..Len(db) :
              Cardinality({j \in 1..Len(items) : items[j].item_id = i})
                  = IF db[i].itemTypeID = AttachmentTypeID THEN 0 ELSE 1
        /\ \A j \in 1..Len(items) : items[j].item_id \in 1..Len(db)
        /\ Len(items) = get_item_count(db)
        /\ \A j, h \in 1..Len(items) : j # h => items[j].key # items[h].key

\* C10 witness: the unlimited list was read from a store that holds an
\* attachment with a note and creators and another item whose join has four
\* rows (two notes, two creators).
C10_Witness ==
    /\ rlast.op = "get_items_with_text"
    /\ rlast.arg = None
    /\ Len(rlast.ret) = 1
    /\ \E i, a \in 1..Len(db) :
          /\ db[i].itemTypeID # AttachmentTypeID
          /\ Len(JoinRows(db, i)) = 4
          /\ db[a].itemTypeID = AttachmentTypeID
          /\ db[a].links = 2
          /\ db[a].note = "child"

\* The orders of the values of a sequence.
Orders(values) ==
    {[i \in 1..Len(values) |-> values[o[i]]] :
        o \in {f \in [1..Len(values) -> 1..Len(values)] :
                  \A a, b \in 1..Len(values) : a # b => f[a] # f[b]}}

\* The aggregate of values, each once, in some order; NULL for no value.
AggregatedOnce(field, values, sep) ==
    IF values = << >> THEN field = Null
    ELSE \E o \in Orders(values) : field = Join(o, sep)

\* C11: in every record get_items_with_text() returns, the notes field is the
\* item's notes joined by a space and the creators field is the item's
\* creators joined by "; ", each creator as "Last, First" or as the last name
\* alone, and each note and each creator is there exactly once, however many
\* of the other relation the item has.
C11_AggregatedOnce ==
    (rlast.op = "get_items_with_text" /\ ~rlast.raised) =>
        \A j \in 1..Len(rlast.ret) :
            LET item == rlast.ret[j]
                i == item.item_id
                ns == NotesJoined(db, i)
            IN /\ AggregatedOnce(item.notes, [k \in 1..Len(ns) |-> NoteText(ns[k])], " ")
               /\ AggregatedOnce(item.creators,
                      [c \in 1..db[i].links |-> CreatorName(CreatorsTable[c])], "; ")

\* What does hold of C11: the fields are as the claim says for the items that
\* have at most one note and at most one creator.
C11_SingleRelations ==
    (rlast.op = "get_items_with_text" /\ ~rlast.raised) =>
        \A j \in 1..Len(rlast.ret) :
            LET item == rlast.ret[j]
                i == item.item_id
                ns == NotesJoined(db, i)
            IN (Len(ns) <= 1 /\ db[i].links <= 1) =>
               /\ AggregatedOnce(item.notes, [k \in 1..Len(ns) |-> NoteText(ns[k])], " ")
               /\ AggregatedOnce(item.creators,
                      [c \in 1..db[i].links |-> CreatorName(CreatorsTable[c])], "; ")

\* A record was returned for an item with one note and one creator.
C11_SingleRelationsSeen ==
    /\ rlast.op = "get_items_with_text"
    /\ \E j \in 1..Len(rlast.ret) :
          /\ rlast.ret[j].notes # Null
          /\ rlast.ret[j].creators = <<"Lovelace", ", ", "Ada">>

\* The labels of the sections, in their order, and the field of each.
SectionLabels == <<"Title: ", "Authors: ", "Abstract: ", "Extra: ", "Notes: ", "Content: ">>
FieldOf(item, s) ==
    IF s = 1 THEN item.title ELSE IF s = 2 THEN item.creators
    ELSE IF s = 3 THEN item.abstract ELSE IF s = 4 THEN item.extra
    ELSE IF s = 5 THEN item.notes ELSE item.fulltext
Populated(v) == IF v = Null THEN FALSE ELSE Len(v) > 0

\* C12: for an item record with a non-empty text field, get_searchable_text()
\* is not empty, and the labels in it are the labels of the populated fields,
\* each once, in the order Title, Authors, Abstract, Extra, Notes, Content;
\* there is no label of an empty field.
C12_LabelsOfPopulated ==
    rlast.op = "get_searchable_text" =>
        LET item == rlast.arg
            text == rlast.ret
            IsLabel(t) == t \in Range(SectionLabels)
            Has(l) == \E s \in 1..Len(SectionLabels) :
                         SectionLabels[s] = l /\ Populated(FieldOf(item, s))
        IN /\ (\E s \in 1..Len(SectionLabels) : Populated(FieldOf(item, s)))
                  => text # << >>
           /\ SelectSeq(text, IsLabel) = SelectSeq(SectionLabels, Has)

\* C12 witness: the text of a record with a title, an empty abstract, no
\* creators and a full text longer than the limit.
C12_Witness ==
    /\ rlast.op = "get_searchable_text"
    /\ rlast.arg.title = <<"x">>
    /\ rlast.arg.abstract = << >>
    /\ rlast.arg.creators = Null
    /\ rlast.arg.fulltext = <<"volume">>
    /\ rlast.ret[1] = "Title: "

\* C13: when a "with reader:" block is left, by completion or by an exception
\* of a reader operation in it, the reader holds no connection and none is
\* left open on the store; the reader never has more than one connection open,
\* and every connection is opened read-only.
C13_ReleasedOnExit ==
    [][/\ scope' < scope => (conn' = "none" /\ handles' = << >>)
       /\ Len(handles') <= 1
       /\ \A i \in 1..Len(handles') : handles'[i] = "ro"
       /\ (conn' = "none") <=> (handles' = << >>)]_vars

\* C13 witness: a block was left by the exception of an operation that had
\* opened the connection.
C13_Witness ==
    /\ rlast.op = "exit"
    /\ rlast.raised
    /\ rlast.arg.held
    /\ scope = 0
    /\ conn = "none"

\* C15: the limit is an upper bound for every limit from zero on:
\* get_items_with_text(limit=n) returns the first n records of the unlimited
\* list (all of them when there are fewer), and search_items_by_text(query,
\* limit=n) returns at most n records.
C15_LimitIsUpperBound ==
    /\ (rlast.op = "get_items_with_text" /\ ~rlast.raised /\ rlast.arg # None) =>
          /\ Len(rlast.ret) <= rlast.arg[1]
          /\ \E all \in get_items_with_text(db, None) :
                rlast.ret = SubSeq(all, 1, Min(rlast.arg[1], Len(all)))
    /\ (rlast.op = "search_items_by_text" /\ ~rlast.raised) =>
          Len(rlast.ret) <= rlast.arg.limit

\* What does hold of C15: the same, for the limits from one on.
C15_PositiveLimits ==
    /\ (rlast.op = "get_items_with_text" /\ ~rlast.raised /\ rlast.arg # None) =>
          (rlast.arg[1] >= 1 =>
              /\ Len(rlast.ret) <= rlast.arg[1]
              /\ \E all \in get_items_with_text(db, None) :
                    rlast.ret = SubSeq(all, 1, Min(rlast.arg[1], Len(all))))
    /\ (rlast.op = "search_items_by_text" /\ ~rlast.raised) =>
          (rlast.arg.limit >= 1 => Len(rlast.ret) <= rlast.arg.limit)

\* A search with limit 1 returned one of the two records that match a query
\* written in another case than the text.
C15_LimitCutsSeen ==
    /\ rlast.op = "search_items_by_text"
    /\ ~rlast.raised
    /\ rlast.arg.limit = 1
    /\ rlast.arg.query = <<"Lovelace">>
    /\ Len(rlast.ret) = 1
    /\ Cardinality({i \in 1..Len(db) : db[i].itemTypeID # AttachmentTypeID}) = 2

====
